---- MODULE Spec2Model ----
(***************************************************************************)
(* The job dispatcher of sidecar/job_processor.py: run_processor polls the *)
(* queue service, and for every job of the batch marks it started, calls   *)
(* the executor and reports the outcome, then sleeps.  The queue service   *)
(* and the executor are the environment: every answer they can give is an  *)
(* input drawn with \E.                                                    *)
(***************************************************************************)
EXTENDS Integers, Sequences, FiniteSets, TLC

\* Bounds of the model.
MaxBatch == 2          \* longest batch a poll returns in the model
MaxErrors == 7         \* cap on consecutive_errors (unbounded in the code)
MaxRowBatch == 1       \* longest batch polled under CounterSpec

\* Program constants.
POLL_INTERVAL == 5
DEFAULT_MIN_BACKOFF == 1
DEFAULT_MAX_BACKOFF == 30

VARIABLES
    pc,                  \* position of run_processor's single thread
    jobs,                \* the batch returned by the last poll
    idx,                 \* 1-based position of the for loop in jobs
    consecutive_errors,  \* run_processor's counter
    res,                 \* (success, result, error) held between execute and report
    calls,               \* HTTP calls made for jobs in the current cycle, in order
    slept,               \* the sleep the loop is in: its branch and its seconds
    polled,              \* what the queue service answered to the last poll
    cycleRaised,         \* an exception escaped the body of the current cycle
    raisedInRow,         \* history, kept under CounterSpec only: how many cycles
                         \* in a row, up to now, an exception escaped
    stopCause,           \* why run_processor returned, "" while it runs
    epc,                 \* executor: position of the request being served
    request,             \* executor: the input of the POST /execute being served
    work,                \* executor: what run_tool has done and holds so far
    response             \* executor: the answer to the request

dispatcherVars == <<pc, jobs, idx, consecutive_errors, res, calls, slept, polled,
                    cycleRaised, raisedInRow, stopCause>>

executorVars == <<epc, request, work, response>>

vars == <<pc, jobs, idx, consecutive_errors, res, calls, slept, polled,
          cycleRaised, raisedInRow, stopCause, epc, request, work, response>>

Min(a, b) == IF a <= b THEN a ELSE b

----------------------------------------------------------------------------
\* Inputs.

\* A job as the queue service sends it: a JSON object that may lack any of
\* the three expected keys.  An element of the list that is no JSON object
\* (a string, a number, null) behaves as a job without "id": job["id"]
\* raises at the same two places.
CompleteJob == [has_id |-> TRUE,  has_input |-> TRUE,  has_secret |-> TRUE]
NoIdJob     == [has_id |-> FALSE, has_input |-> TRUE,  has_secret |-> TRUE]
NoInputJob  == [has_id |-> TRUE,  has_input |-> FALSE, has_secret |-> TRUE]
NoSecretJob == [has_id |-> TRUE,  has_input |-> TRUE,  has_secret |-> FALSE]
JobShapes == {CompleteJob, NoIdJob, NoInputJob, NoSecretJob}

RECURSIVE SeqsUpTo(_, _)
SeqsUpTo(S, n) ==
    IF n = 0 THEN {<<>>}
    ELSE LET shorter == SeqsUpTo(S, n - 1)
         IN  shorter \cup {Append(s, x) : s \in {t \in shorter : Len(t) = n - 1}, x \in S}

Batches == SeqsUpTo(JobShapes, MaxBatch)

\* What GET /api/jobs can come back with.
\*   transport_error : unreachable, timeout or non-2xx (requests.RequestException)
\*   json_not_object : 2xx whose body is JSON but no object (a list, a string)
\*   not_json        : 2xx whose body is no JSON
\*   no_jobs_key     : 2xx, a JSON object without "jobs"
\*   jobs            : 2xx, a JSON object with "jobs"
PollKinds == {"transport_error", "json_not_object", "not_json", "no_jobs_key", "jobs"}

PollResponses ==
    {[kind |-> k, jobs |-> <<>>] : k \in PollKinds \ {"jobs"}}
        \cup {[kind |-> "jobs", jobs |-> b] : b \in Batches}

\* What POST /execute can come back with.
\*   success      : 2xx, success true, a result
\*   success_null : 2xx, success true, result null or absent
\*   tool_failure : 2xx, success false, an error message
\*   tool_failure_no_message : 2xx, success false, no "error" key (or null)
\*   tool_failure_empty      : 2xx, success false, "error": ""
\*   timeout      : requests.Timeout
\*   http_error   : any other requests.RequestException (unreachable, non-2xx)
\*   bad_body     : 2xx whose JSON body is no object
ExecOutcomes == {"success", "success_null", "tool_failure",
                 "tool_failure_no_message", "tool_failure_empty",
                 "timeout", "http_error", "bad_body"}
TransportOutcomes == {"timeout", "http_error"}
ToolFailureOutcomes == {"tool_failure", "tool_failure_no_message",
                        "tool_failure_empty"}
AnsweredOutcomes == {"success", "success_null"} \cup ToolFailureOutcomes

NoRes == [success |-> FALSE, result |-> "-", error |-> "-"]
NoSleep == [kind |-> "none", seconds |-> 0]

\* The executor between two requests.
NoUrl == [kind |-> "-", host |-> "-", port |-> "-", path |-> "-", has_v |-> FALSE]
NoRequest == [url |-> NoUrl, mode |-> "-"]
NoText == [state |-> "not_acquired", len |-> 0]
NoWork == [route |-> "none", fabric |-> "unchecked", ops |-> <<>>,
           text |-> NoText, selected |-> <<>>, results |-> <<>>]
NoResponse == [http |-> 0, success |-> FALSE, body |-> "-",
               sections |-> <<>>, error |-> "-"]

----------------------------------------------------------------------------
\* The functions of job_processor.py.

\* poll_for_jobs: the list it returns, or the exception that escapes it.
\* response.json() on a body that is no JSON raises a JSONDecodeError, which
\* is a RequestException in requests >= 2.27 and a plain ValueError before:
\* json_error_caught is the build's choice.
poll_for_jobs(resp, json_error_caught) ==
    CASE resp.kind = "transport_error" -> [raised |-> FALSE, jobs |-> <<>>]
      [] resp.kind = "not_json"        -> [raised |-> ~json_error_caught, jobs |-> <<>>]
      [] resp.kind = "json_not_object" -> [raised |-> TRUE, jobs |-> <<>>]
      [] resp.kind = "no_jobs_key"     -> [raised |-> FALSE, jobs |-> <<>>]
      [] OTHER                         -> [raised |-> FALSE, jobs |-> resp.jobs]

\* Mutant: the result of the mark-started call is not looked at.
mark_job_started_unchecked(http_ok) == TRUE

\* mark_job_started: True on 2xx, False on any RequestException.
mark_job_started(http_ok) == http_ok

\* Mutant: a timeout is taken for a successful execution.
execute_job_timeout_succeeds(outcome) ==
    CASE outcome = "success"      -> [success |-> TRUE,  result |-> "result", error |-> "None"]
      [] outcome = "success_null" -> [success |-> TRUE,  result |-> "None",   error |-> "None"]
      [] outcome = "tool_failure" -> [success |-> FALSE, result |-> "None",   error |-> "tool error"]
      [] outcome = "tool_failure_no_message"
                                  -> [success |-> FALSE, result |-> "None",   error |-> "Unknown error"]
      [] outcome = "tool_failure_empty"
                                  -> [success |-> FALSE, result |-> "None",   error |-> ""]
      [] outcome = "timeout"      -> [success |-> TRUE,  result |-> "None",   error |-> "None"]
      [] outcome = "http_error"   -> [success |-> FALSE, result |-> "None",   error |-> "API error"]
      [] OTHER                    -> [success |-> FALSE, result |-> "None",   error |-> "Unexpected error"]

\* execute_job, the part inside its try: the triple it returns.
execute_job(outcome) ==
    CASE outcome = "success"      -> [success |-> TRUE,  result |-> "result", error |-> "None"]
      [] outcome = "success_null" -> [success |-> TRUE,  result |-> "None",   error |-> "None"]
      [] outcome = "tool_failure" -> [success |-> FALSE, result |-> "None",   error |-> "tool error"]
      [] outcome = "tool_failure_no_message"
                                  -> [success |-> FALSE, result |-> "None",   error |-> "Unknown error"]
      [] outcome = "tool_failure_empty"
                                  -> [success |-> FALSE, result |-> "None",   error |-> ""]
      [] outcome = "timeout"      -> [success |-> FALSE, result |-> "None",   error |-> "Execution timed out"]
      [] outcome = "http_error"   -> [success |-> FALSE, result |-> "None",   error |-> "API error"]
      [] OTHER                    -> [success |-> FALSE, result |-> "None",   error |-> "Unexpected error"]

\* Mutant: the error string is never put into the payload.
report_payload_without_error(r) ==
    [status     |-> IF r.success THEN "completed" ELSE "failed",
     has_result |-> r.success /\ r.result # "None",
     has_error  |-> FALSE,
     result     |-> r.result,
     error      |-> r.error]

\* report_job_complete: the payload it posts.  result and error are the
\* values of the keys, read only where has_result or has_error says the
\* key is there.
report_payload(r) ==
    [status     |-> IF r.success THEN "completed" ELSE "failed",
     has_result |-> r.success /\ r.result # "None",
     has_error  |-> ~r.success /\ r.error # "None" /\ r.error # "",
     result     |-> r.result,
     error      |-> r.error]

\* Mutant: the exponent is n instead of n - 1.
calculate_backoff_exponent_n(n, min_backoff, max_backoff) ==
    IF n <= 0 THEN 0
    ELSE Min(max_backoff, min_backoff * (2 ^ n))

calculate_backoff(n, min_backoff, max_backoff) ==
    IF n <= 0 THEN 0
    ELSE Min(max_backoff, min_backoff * (2 ^ (n - 1)))

\* Mutant: the for loop has no per-job handler.
job_error_uncaught(job) == FALSE

\* The per-job handler of the for loop (lines 208-209), entered when
\* process_job(job) raises: it swallows the exception, unless building its
\* own log message raises again, which job['id'] does for a job without id.
job_error_caught(job) == job.has_id

\* Mutant: the handler logs the error and leaves the loop.
processor_error_stops(n) ==
    [consecutive_errors |-> n + 1, slept |-> NoSleep, pc |-> "stopped"]

\* Mutant: the handler counts the error and polls again at once.
processor_error_no_sleep(n) ==
    [consecutive_errors |-> n + 1, slept |-> NoSleep, pc |-> "poll"]

\* Mutant: the handler does not count the error.
processor_error_not_counted(n) ==
    LET backoff == calculate_backoff(n, DEFAULT_MIN_BACKOFF, DEFAULT_MAX_BACKOFF)
    IN  [consecutive_errors |-> n,
         slept |-> IF backoff > 0 THEN [kind |-> "backoff", seconds |-> backoff]
                   ELSE [kind |-> "interval", seconds |-> POLL_INTERVAL],
         pc |-> "sleep"]

\* run_processor's "except Exception" handler: the counter, the sleep it
\* takes and where control goes next.
processor_error(n) ==
    LET n1 == n + 1
        backoff == calculate_backoff(n1, DEFAULT_MIN_BACKOFF, DEFAULT_MAX_BACKOFF)
    IN  [consecutive_errors |-> n1,
         slept |-> IF backoff > 0 THEN [kind |-> "backoff", seconds |-> backoff]
                   ELSE [kind |-> "interval", seconds |-> POLL_INTERVAL],
         pc |-> "sleep"]

\* The index the for loop moves to after the job at i.
next_job(i) == i + 1

----------------------------------------------------------------------------
\* The calls the dispatcher makes for the job at index i of the batch.

MarkCall(i, http_ok) ==
    [op |-> "mark", job |-> i, ok |-> http_ok, outcome |-> "-",
     status |-> "-", has_result |-> FALSE, has_error |-> FALSE,
     result |-> "-", error |-> "-"]

ExecuteCall(i, outcome) ==
    [op |-> "execute", job |-> i, ok |-> outcome \in AnsweredOutcomes,
     outcome |-> outcome, status |-> "-", has_result |-> FALSE, has_error |-> FALSE,
     result |-> "-", error |-> "-"]

ReportCall(i, payload, http_ok) ==
    [op |-> "report", job |-> i, ok |-> http_ok, outcome |-> "-",
     status |-> payload.status, has_result |-> payload.has_result,
     has_error |-> payload.has_error,
     result |-> payload.result, error |-> payload.error]

----------------------------------------------------------------------------
\* The state machine of run_processor.

Init ==
    /\ pc = "poll"
    /\ jobs = <<>>
    /\ idx = 1
    /\ consecutive_errors = 0
    /\ res = NoRes
    /\ calls = <<>>
    /\ slept = NoSleep
    /\ polled = "-"
    /\ cycleRaised = FALSE
    /\ raisedInRow = 0
    /\ stopCause = ""
    /\ epc = "idle"
    /\ request = NoRequest
    /\ work = NoWork
    /\ response = NoResponse

\* An exception reaches "except Exception" of the while loop (lines 219-229).
EscapeToHandler ==
    LET h == processor_error(consecutive_errors)
    IN  /\ consecutive_errors' = h.consecutive_errors
        /\ slept' = h.slept
        /\ pc' = h.pc
        /\ stopCause' = IF h.pc = "stopped" THEN "exception" ELSE stopCause
        /\ cycleRaised' = TRUE

\* process_job(jobs[i]) has returned, or raised into the per-job handler
\* that logs it (lines 205-209): the for loop goes on, and after the last
\* job the counter is reset and the loop sleeps (lines 211-214).
AfterJob(i) ==
    LET n == next_job(i)
    IN  /\ idx' = n
        /\ UNCHANGED <<cycleRaised, stopCause>>
        /\ IF n <= Len(jobs)
           THEN /\ pc' = "process"
                /\ UNCHANGED <<consecutive_errors, slept>>
           ELSE /\ pc' = "sleep"
                /\ consecutive_errors' = 0
                /\ slept' = [kind |-> "interval", seconds |-> POLL_INTERVAL]

\* One iteration of the while loop starts: jobs = poll_for_jobs().
Poll ==
    /\ pc = "poll"
    /\ UNCHANGED executorVars
    /\ \E resp \in PollResponses :
       \E json_error_caught \in IF resp.kind = "not_json" THEN BOOLEAN ELSE {TRUE} :
        LET r == poll_for_jobs(resp, json_error_caught)
            raises == \/ r.raised
                      \/ \E k \in 1..Len(r.jobs) :
                            /\ ~r.jobs[k].has_id \/ ~r.jobs[k].has_input
                            /\ ~job_error_caught(r.jobs[k])
        IN  /\ raises => consecutive_errors < MaxErrors
            /\ polled' = resp.kind
            /\ calls' = <<>>
            /\ res' = NoRes
            /\ idx' = 1
            /\ jobs' = r.jobs
            /\ IF r.raised
               THEN EscapeToHandler
               ELSE /\ cycleRaised' = FALSE
                    /\ UNCHANGED <<consecutive_errors, stopCause>>
                    /\ IF r.jobs # <<>>
                       THEN /\ pc' = "process"
                            /\ slept' = NoSleep
                       ELSE /\ pc' = "sleep"
                            /\ slept' = [kind |-> "interval", seconds |-> POLL_INTERVAL]

\* process_job up to mark_job_started (lines 128-138).  job["id"] raises
\* KeyError for a job without id; the per-job handler evaluates job['id']
\* again in its log message (line 209), so the KeyError leaves the for loop.
MarkStarted ==
    /\ pc = "process"
    /\ UNCHANGED executorVars
    /\ IF ~jobs[idx].has_id
       THEN /\ UNCHANGED <<jobs, res, calls, polled>>
            /\ IF job_error_caught(jobs[idx])
               THEN AfterJob(idx)
               ELSE EscapeToHandler /\ UNCHANGED idx
       ELSE \E http_ok \in BOOLEAN :
            /\ calls' = Append(calls, MarkCall(idx, http_ok))
            /\ UNCHANGED <<jobs, res, polled>>
            /\ IF mark_job_started(http_ok)
               THEN /\ pc' = "execute"
                    /\ UNCHANGED <<idx, consecutive_errors, slept, cycleRaised, stopCause>>
               ELSE AfterJob(idx)

\* execute_job (lines 69-93).  job["input"] is read before the try: for a
\* job without input the KeyError leaves process_job and is logged by the
\* per-job handler, and no call is made.
Execute ==
    /\ pc = "execute"
    /\ UNCHANGED executorVars
    /\ IF ~jobs[idx].has_input
       THEN /\ UNCHANGED <<jobs, res, calls, polled>>
            /\ IF job_error_caught(jobs[idx])
               THEN AfterJob(idx)
               ELSE EscapeToHandler /\ UNCHANGED idx
       ELSE \E outcome \in ExecOutcomes :
            /\ calls' = Append(calls, ExecuteCall(idx, outcome))
            /\ res' = execute_job(outcome)
            /\ pc' = "report"
            /\ UNCHANGED <<jobs, idx, consecutive_errors, slept, polled,
                           cycleRaised, stopCause>>

\* report_job_complete and the rest of process_job (lines 143-157).
Report ==
    /\ pc = "report"
    /\ UNCHANGED executorVars
    /\ \E http_ok \in BOOLEAN :
        /\ calls' = Append(calls, ReportCall(idx, report_payload(res), http_ok))
        /\ res' = NoRes
        /\ AfterJob(idx)
        /\ UNCHANGED <<jobs, polled>>

\* time.sleep returns and the while loop starts over.  The batch and the
\* record of the cycle's calls end with the cycle.
Sleep ==
    /\ pc = "sleep"
    /\ pc' = "poll"
    /\ slept' = NoSleep
    /\ jobs' = <<>>
    /\ idx' = 1
    /\ calls' = <<>>
    /\ UNCHANGED <<consecutive_errors, res, polled, cycleRaised, stopCause>>
    /\ UNCHANGED executorVars

\* KeyboardInterrupt: it is no Exception, so no handler but line 216
\* takes it, and run_processor ends wherever it was.
Interrupt ==
    /\ pc # "stopped"
    /\ pc' = "stopped"
    /\ stopCause' = "KeyboardInterrupt"
    /\ UNCHANGED <<jobs, idx, consecutive_errors, res, calls, slept, polled,
                   cycleRaised>>
    /\ UNCHANGED executorVars

\* raisedInRow is a history of the run, not part of it: Spec leaves it
\* alone.
RowHeld == raisedInRow' = raisedInRow

Step ==
    \/ Poll /\ RowHeld
    \/ MarkStarted /\ RowHeld
    \/ Execute /\ RowHeld
    \/ Report /\ RowHeld
    \/ Sleep /\ RowHeld

Next == Step \/ (Interrupt /\ RowHeld)

Spec == Init /\ [][Next]_vars

\* The interpreter always runs the next statement, and every HTTP call and
\* every sleep is bounded by a timeout, so the thread always takes its next
\* step unless it is interrupted.
LiveSpec == Spec /\ WF_vars(Step)

\* The same run with the history written: the step that ends a cycle, by
\* going to sleep, counts it if an exception escaped it and starts the
\* count over if none did.
RowTracked ==
    raisedInRow' = IF pc' = "sleep" /\ pc # "sleep"
                   THEN IF cycleRaised' THEN raisedInRow + 1 ELSE 0
                   ELSE raisedInRow

\* The counter does not depend on what the jobs of a batch are beyond
\* whether one of them ends the cycle: CounterSpec polls short batches.
CounterNext ==
    \/ Poll /\ Len(jobs') <= MaxRowBatch /\ RowTracked
    \/ MarkStarted /\ RowTracked
    \/ Execute /\ RowTracked
    \/ Report /\ RowTracked
    \/ Sleep /\ RowTracked
    \/ Interrupt /\ RowTracked

CounterSpec == Init /\ [][CounterNext]_vars

----------------------------------------------------------------------------
\* The executor: POST /execute of sidecar/tool_api.py.

\* Least number of characters of text that is analysed.
MIN_CONTENT_LENGTH == 100

\* Text lengths are taken this far on either side of MIN_CONTENT_LENGTH.
MaxMargin == 1

\* The value of input["url"].  A string that is a URL is kept as what
\* urlparse makes of it: netloc is the host together with ":port" when the
\* URL names a port, path is the path, has_v says whether the query has a
\* non-blank v.
\*   missing      : no "url" key, or null
\*   empty        : ""
\*   not_a_string : a number, a list, ... that is not falsy
Hosts == {"youtube.com", "www.youtube.com", "youtu.be", "m.youtube.com",
          "music.youtube.com", "example.com"}
Ports == {"", "443"}
Paths == {"/watch", "/embed/abc", "/"}

Urls ==
    {[kind |-> k, host |-> "-", port |-> "-", path |-> "-", has_v |-> FALSE] :
        k \in {"missing", "empty", "not_a_string"}}
    \cup {[kind |-> "url", host |-> h, port |-> p, path |-> q, has_v |-> v] :
            h \in Hosts, p \in Ports, q \in Paths, v \in BOOLEAN}

\* The value of input["mode"]; unhashable is a list or a mapping.
Modes == {"quick", "standard", "deep", "unknown", "missing", "unhashable"}

Requests == [url : Urls, mode : Modes]

\* What the captioning service gives: no transcript (None), or one of this
\* many characters; and the number of characters of the text of a page.
TextLengths ==
    {0} \cup ((MIN_CONTENT_LENGTH - MaxMargin) .. (MIN_CONTENT_LENGTH + MaxMargin))
TranscriptOutcomes ==
    {[state |-> "unavailable", len |-> 0]}
        \cup {[state |-> "acquired", len |-> n] : n \in TextLengths}
PageOutcomes ==
    {[state |-> "fetch_failed", len |-> 0]}
        \cup {[state |-> "acquired", len |-> n] : n \in TextLengths}

\* How one run of the fabric command can end.
PatternOutcomes == {"output", "empty_output", "nonzero_exit", "exception",
                    "fabric_missing"}

\* urlparse(url).netloc
netloc(url) == [host |-> url.host, port |-> url.port]

YOUTUBE_NETLOCS ==
    {[host |-> h, port |-> ""] :
        h \in {"youtube.com", "www.youtube.com", "youtu.be", "m.youtube.com"}}

is_youtube_url(url) == netloc(url) \in YOUTUBE_NETLOCS

\* path.lstrip('/')
LStripSlash(path) ==
    CASE path = "/"          -> ""
      [] path = "/watch"     -> "watch"
      [] path = "/embed/abc" -> "embed/abc"
      [] OTHER               -> path

\* 'youtube.com' in netloc
ContainsYoutubeCom(host) ==
    host \in {"youtube.com", "www.youtube.com", "m.youtube.com", "music.youtube.com"}

extract_video_id(url) ==
    IF netloc(url) = [host |-> "youtu.be", port |-> ""]
    THEN LStripSlash(url.path)
    ELSE IF ContainsYoutubeCom(url.host)
         THEN IF url.path = "/watch"
              THEN IF url.has_v THEN "v" ELSE "None"
              ELSE IF url.path = "/embed/abc" THEN "abc" ELSE "None"
         ELSE "None"

\* `not video_id`
NoVideoId(video_id) == video_id \in {"None", ""}

\* input_data.get("mode", "quick")
mode_of(req) == IF req.mode = "missing" THEN "quick" ELSE req.mode

youtube_patterns(mode) ==
    CASE mode = "standard" -> <<"extract_wisdom", "extract_insights", "summarize">>
      [] mode = "deep"     -> <<"extract_wisdom", "extract_insights",
                                "extract_recommendations", "extract_references",
                                "summarize">>
      [] OTHER             -> <<"extract_wisdom">>

content_patterns(mode) ==
    CASE mode = "standard" -> <<"summarize", "extract_wisdom">>
      [] mode = "deep"     -> <<"summarize", "extract_wisdom", "extract_insights",
                                "extract_recommendations">>
      [] OTHER             -> <<"summarize">>

\* pattern.replace('_', ' ').title()
pattern_title(pattern) ==
    CASE pattern = "extract_wisdom"          -> "Extract Wisdom"
      [] pattern = "extract_insights"        -> "Extract Insights"
      [] pattern = "extract_recommendations" -> "Extract Recommendations"
      [] pattern = "extract_references"      -> "Extract References"
      [] OTHER                               -> "Summarize"

\* run_fabric_pattern: the stripped output, or None.
run_fabric_pattern(outcome) == IF outcome = "output" THEN "output" ELSE "None"

\* Mutant: a pattern without output gets no section.
append_section_if_output(results, pattern, output) ==
    IF output # "None"
    THEN Append(results, [pattern |-> pattern, title |-> pattern_title(pattern),
                          body |-> output])
    ELSE results

\* The body of the for loop over the selected patterns: one section more.
append_section(results, pattern, output) ==
    Append(results,
           [pattern |-> pattern, title |-> pattern_title(pattern),
            body |-> IF output # "None" THEN output ELSE "*Pattern execution failed*"])

\* Mutant: shutil.which's answer is not looked at.
fabric_missing_ignored(fabric_path) == FALSE

\* `not fabric_path`, for what shutil.which("fabric") returned.
fabric_missing(fabric_path) == fabric_path = "None"

\* Mutant: the length is compared with 10.
transcript_unusable_10(t) == t.state = "unavailable" \/ t.len = 0 \/ t.len < 10

\* `not transcript or len(transcript) < 100`
transcript_unusable(t) ==
    t.state = "unavailable" \/ t.len = 0 \/ t.len < MIN_CONTENT_LENGTH

\* `len(text_content) < 100`
page_text_too_short(t) == t.len < MIN_CONTENT_LENGTH

\* What run_tool hands to execute_tool: a markdown result, or an exception.
Returned(body, sections) ==
    [raised |-> FALSE, body |-> body, sections |-> sections, message |-> "None"]
Raised(message) ==
    [raised |-> TRUE, body |-> "None", sections |-> <<>>, message |-> message]

\* Mutant: execute_tool has no except clause, the framework answers 500.
execute_tool_uncaught(r) ==
    IF r.raised
    THEN [http |-> 500, success |-> FALSE, body |-> "None", sections |-> <<>>,
          error |-> "Internal Server Error"]
    ELSE [http |-> 200, success |-> TRUE, body |-> r.body, sections |-> r.sections,
          error |-> "None"]

\* execute_tool: the ExecuteResponse for what run_tool returned or raised.
execute_tool(r) ==
    IF r.raised
    THEN [http |-> 200, success |-> FALSE, body |-> "None", sections |-> <<>>,
          error |-> r.message]
    ELSE [http |-> 200, success |-> TRUE, body |-> r.body, sections |-> r.sections,
          error |-> "None"]

\* How many times the for loop over the selected patterns has run.
PatternRuns(ops) ==
    Cardinality({k \in 1..Len(ops) : ops[k] = "run_fabric_pattern"})

\* The request is answered.
Answer(r) ==
    /\ response' = execute_tool(r)
    /\ epc' = "done"

\* A request arrives.
Receive ==
    /\ epc = "idle"
    /\ \E req \in Requests : request' = req
    /\ epc' = "run_tool"
    /\ work' = NoWork
    /\ response' = NoResponse
    /\ UNCHANGED dispatcherVars

\* run_tool (lines 118-137): the url is required, urlparse of a value that
\* is no string raises, and the netloc decides the analyzer.
RunTool ==
    /\ epc = "run_tool"
    /\ UNCHANGED <<request, dispatcherVars>>
    /\ IF request.url.kind \in {"missing", "empty"}
       THEN Answer(Raised("URL is required")) /\ UNCHANGED work
       ELSE IF request.url.kind = "not_a_string"
       THEN Answer(Raised("urlparse error")) /\ UNCHANGED work
       ELSE /\ work' = [work EXCEPT !.route =
                           IF is_youtube_url(request.url) THEN "video" ELSE "generic"]
            /\ epc' = "analyzer"
            /\ UNCHANGED response

\* The first statement of either analyzer (lines 190-196, 297-303).
CheckFabric ==
    /\ epc = "analyzer"
    /\ UNCHANGED <<request, dispatcherVars>>
    /\ \E fabric_path \in {"None", "/usr/bin/fabric"} :
        /\ work' = [work EXCEPT !.fabric = fabric_path]
        /\ IF fabric_missing(fabric_path)
           THEN Answer(Returned("Analysis Unavailable", <<>>))
           ELSE /\ epc' = IF work.route = "video" THEN "video_id" ELSE "fetch"
                /\ UNCHANGED response

\* run_youtube_analyzer, lines 198-204.
ExtractVideoId ==
    /\ epc = "video_id"
    /\ UNCHANGED <<request, dispatcherVars>>
    /\ work' = [work EXCEPT !.ops = Append(@, "extract_video_id")]
    /\ IF NoVideoId(extract_video_id(request.url))
       THEN Answer(Returned("Invalid URL", <<>>))
       ELSE epc' = "transcript" /\ UNCHANGED response

\* Choosing the patterns (lines 219-225, 328-334): patterns.get(mode, ...)
\* raises TypeError for a mode that cannot be hashed.
SelectPatterns(w, text, selected) ==
    IF mode_of(request) = "unhashable"
    THEN /\ work' = [w EXCEPT !.text = text]
         /\ Answer(Raised("unhashable type"))
    ELSE /\ work' = [w EXCEPT !.text = text, !.selected = selected]
         /\ epc' = "patterns"
         /\ UNCHANGED response

\* run_youtube_analyzer, lines 206-225.
FetchTranscript ==
    /\ epc = "transcript"
    /\ UNCHANGED <<request, dispatcherVars>>
    /\ \E t \in TranscriptOutcomes :
        LET w == [work EXCEPT !.ops = Append(@, "get_youtube_transcript")]
        IN  IF transcript_unusable(t)
            THEN /\ work' = [w EXCEPT !.text = t]
                 /\ Answer(Returned("No Transcript", <<>>))
            ELSE SelectPatterns(w, t, youtube_patterns(mode_of(request)))

\* run_content_analyzer, lines 305-334.
FetchPage ==
    /\ epc = "fetch"
    /\ UNCHANGED <<request, dispatcherVars>>
    /\ \E t \in PageOutcomes :
        IF t.state = "fetch_failed"
        THEN /\ work' = [work EXCEPT !.ops = Append(@, "requests.get")]
             /\ Answer(Returned("Fetch Failed", <<>>))
        ELSE LET w == [work EXCEPT !.ops = @ \o <<"requests.get", "extract_text_from_html">>]
             IN  IF page_text_too_short(t)
                 THEN /\ work' = [w EXCEPT !.text = t]
                      /\ Answer(Returned("Insufficient Content", <<>>))
                 ELSE SelectPatterns(w, t, content_patterns(mode_of(request)))

\* One turn of the for loop over the selected patterns (lines 228-235,
\* 338-345).
RunPattern ==
    /\ epc = "patterns"
    /\ LET done == PatternRuns(work.ops)
       IN  /\ done < Len(work.selected)
           /\ \E outcome \in PatternOutcomes :
                work' = [work EXCEPT
                    !.ops = Append(@, "run_fabric_pattern"),
                    !.results = append_section(@, work.selected[done + 1],
                                               run_fabric_pattern(outcome))]
    /\ UNCHANGED <<epc, request, response, dispatcherVars>>

\* The loop is over: the sections are joined under the heading (lines
\* 237-239, 347-349).
BuildResponse ==
    /\ epc = "patterns"
    /\ PatternRuns(work.ops) = Len(work.selected)
    /\ Answer(Returned(IF work.route = "video" THEN "YouTube Video Analysis"
                       ELSE "Content Analysis", work.results))
    /\ UNCHANGED <<request, work, dispatcherVars>>

\* The response is sent; nothing of the request is kept.
Respond ==
    /\ epc = "done"
    /\ epc' = "idle"
    /\ request' = NoRequest
    /\ work' = NoWork
    /\ response' = NoResponse
    /\ UNCHANGED dispatcherVars

ExecutorNext ==
    \/ Receive \/ RunTool \/ CheckFabric \/ ExtractVideoId \/ FetchTranscript
    \/ FetchPage \/ RunPattern \/ BuildResponse \/ Respond

ExecutorSpec == Init /\ [][ExecutorNext]_vars

----------------------------------------------------------------------------
\* Reading the calls of the current cycle.

CallsOf(i, op) == {p \in 1..Len(calls) : calls[p].job = i /\ calls[p].op = op}

MarkFailed(i)    == \E p \in CallsOf(i, "mark") : ~calls[p].ok
MarkSucceeded(i) == \E p \in CallsOf(i, "mark") : calls[p].ok
ExecuteEnded(i, outcomes) ==
    \E p \in CallsOf(i, "execute") : calls[p].outcome \in outcomes

\* The for loop has left the job at index i behind.
Handled(i) == i \in 1..Len(jobs) /\ i < idx

\* The cycle body is over and the loop is in its sleep.
CycleOver == pc = "sleep"

----------------------------------------------------------------------------
\* C1: a job whose mark-started call failed is never sent to the executor
\* and gets no job-complete webhook in that cycle.
C1_MarkFailedJobIsSkipped ==
    \A i \in 1..Len(jobs) :
        MarkFailed(i) => CallsOf(i, "execute") = {} /\ CallsOf(i, "report") = {}

\* A cycle is over in which the first job failed at mark-started and the
\* second one was executed and reported.
C1_Witness ==
    /\ CycleOver
    /\ Len(jobs) = 2
    /\ MarkFailed(1)
    /\ CallsOf(2, "execute") # {} /\ CallsOf(2, "report") # {}

\* C2 (as claimed): after any cycle whose body completed without an
\* exception escaping it, the consecutive-error counter is 0 when the next
\* cycle begins, also when the poll returned an empty list.
C2_CounterZeroAfterCompletedCycle ==
    (pc \in {"sleep", "poll"} /\ polled # "-" /\ ~cycleRaised)
        => consecutive_errors = 0

\* C3 (as claimed): every job for which mark-started succeeded is sent to
\* the executor at most once and gets exactly one job-complete webhook in
\* the same cycle, made after the execution attempt, however that attempt
\* ended, a job without input included.
C3_StartedJobIsReportedOnce ==
    \A i \in 1..Len(jobs) :
        (Handled(i) /\ MarkSucceeded(i)) =>
            /\ Cardinality(CallsOf(i, "execute")) <= 1
            /\ Cardinality(CallsOf(i, "report")) = 1
            /\ \A e \in CallsOf(i, "execute"), r \in CallsOf(i, "report") : e < r

\* C4 (as claimed): a job that lacks id, input or webhook_secret fails on
\* its own: every other job of the batch still gets its mark-started call
\* in that cycle, in batch order, and the cycle is no processor-level error
\* (no exception escapes, no backoff sleep).
C4_MalformedJobFailsAlone ==
    (CycleOver /\ \E j \in 1..Len(jobs) : jobs[j] # CompleteJob) =>
        /\ \A i \in 1..Len(jobs) : jobs[i] = CompleteJob => CallsOf(i, "mark") # {}
        /\ \A p, q \in 1..Len(calls) : p < q => calls[p].job <= calls[q].job
        /\ ~cycleRaised
        /\ slept = [kind |-> "interval", seconds |-> POLL_INTERVAL]

\* C5 (as claimed): a job whose execute call ended in a transport error
\* gets no job-complete webhook, neither 'completed' nor 'failed'.
C5_TransportErrorNotReported ==
    \A i \in 1..Len(jobs) :
        ExecuteEnded(i, TransportOutcomes) => CallsOf(i, "report") = {}

\* C5 (amended): a job whose execute call ended in a transport error is
\* reported like a tool-level failure: once the loop has left the job it
\* has exactly one job-complete webhook, every job-complete webhook of such
\* a job has status 'failed' and carries the error string, and status
\* 'completed' is sent only for an executor answer with success true.
C5_TransportErrorReportedFailed ==
    \A i \in 1..Len(jobs) :
        /\ ExecuteEnded(i, TransportOutcomes) =>
            /\ Handled(i) => Cardinality(CallsOf(i, "report")) = 1
            /\ \A r \in CallsOf(i, "report") :
                   calls[r].status = "failed" /\ calls[r].has_error
        /\ ExecuteEnded(i, {"tool_failure"}) =>
               \A r \in CallsOf(i, "report") : calls[r].status = "failed"
        /\ \A r \in CallsOf(i, "report") :
               calls[r].status = "completed" =>
                   ExecuteEnded(i, {"success", "success_null"})

\* A cycle is over in which one job's execute call timed out and another
\* one's hit an HTTP error, and both were reported 'failed'.
C5_Witness ==
    /\ CycleOver
    /\ Len(jobs) = 2
    /\ ExecuteEnded(1, {"timeout"}) /\ ExecuteEnded(2, {"http_error"})
    /\ \A i \in {1, 2} : \E r \in CallsOf(i, "report") : calls[r].status = "failed"

----------------------------------------------------------------------------
\* min(30, 2^(n-1)) written out: 1, 2, 4, 8, 16, then 30 for good.
ExpectedBackoff(n) ==
    IF n = 0 THEN 0
    ELSE IF n <= 5 THEN <<1, 2, 4, 8, 16>>[n]
    ELSE 30

\* C6: calculate_backoff with the default bounds is 0 for n = 0 and
\* min(30, 2^(n-1)) for n >= 1, and the backoff sleep the loop takes after
\* its n-th consecutive processor-level error is that value, between 1 and
\* 30 seconds.
C6_BackoffValues ==
    /\ calculate_backoff(0, DEFAULT_MIN_BACKOFF, DEFAULT_MAX_BACKOFF) = 0
    /\ \A n \in 1..MaxErrors :
           calculate_backoff(n, DEFAULT_MIN_BACKOFF, DEFAULT_MAX_BACKOFF)
               = ExpectedBackoff(n)
    /\ (CycleOver /\ cycleRaised) =>
           /\ consecutive_errors >= 1
           /\ slept.kind = "backoff"
           /\ slept.seconds = ExpectedBackoff(consecutive_errors)
           /\ slept.seconds >= 1 /\ slept.seconds <= 30

\* The loop sleeps 30 seconds after its seventh consecutive error: 2^6
\* capped.
C6_Witness ==
    /\ CycleOver /\ cycleRaised
    /\ consecutive_errors = 7
    /\ slept = [kind |-> "backoff", seconds |-> 30]

\* C7: the loop never ends on an error: it stops only on a
\* KeyboardInterrupt, and until then it always starts another poll cycle,
\* whatever the polls, the webhooks, the executor and the jobs do.
C7_LoopStopsOnlyOnInterrupt ==
    /\ [](pc = "stopped" => stopCause = "KeyboardInterrupt")
    /\ []<>(pc = "poll" \/ pc = "stopped")

\* The loop is at the start of a new cycle after a cycle that an exception
\* escaped, with three processor-level errors in a row behind it.
C7_Witness ==
    /\ pc = "poll"
    /\ cycleRaised
    /\ consecutive_errors >= 3

\* C8 (as claimed): any transport or protocol error of the poll, a body
\* that is no JSON object included, is an empty cycle: no job is processed,
\* no exception escapes (the counter is not incremented) and the sleep is
\* the poll interval.
C8_PollErrorIsEmptyCycle ==
    (CycleOver /\ polled \in {"transport_error", "not_json", "json_not_object"}) =>
        /\ jobs = <<>> /\ calls = <<>>
        /\ ~cycleRaised
        /\ slept = [kind |-> "interval", seconds |-> POLL_INTERVAL]

\* C9: a cycle whose jobs fail at mark-started, at execution or at the
\* completion report (no job of it lacks its id) ends with the counter not
\* incremented and sleeps exactly the poll interval, never a backoff.
C9_JobFailuresKeepCadence ==
    (CycleOver /\ jobs # <<>> /\ \A i \in 1..Len(jobs) : jobs[i].has_id) =>
        /\ ~cycleRaised
        /\ consecutive_errors = 0
        /\ slept = [kind |-> "interval", seconds |-> POLL_INTERVAL]

\* A cycle is over in which one job failed at mark-started and the other
\* failed at execution and again at its completion report.
C9_Witness ==
    /\ CycleOver
    /\ Len(jobs) = 2
    /\ MarkFailed(1)
    /\ ExecuteEnded(2, {"tool_failure", "timeout", "http_error"})
    /\ \E r \in CallsOf(2, "report") : ~calls[r].ok

\* mark-started, execute, report: the order of a job's calls.
OpRank(op) == CASE op = "mark" -> 1 [] op = "execute" -> 2 [] OTHER -> 3

----------------------------------------------------------------------------
\* The "error" value of the executor's answer, as execute_job has to pass
\* it on: the message, or "Unknown error" where the answer has none.
ExecutorMessage(outcome) ==
    CASE outcome = "tool_failure"            -> "tool error"
      [] outcome = "tool_failure_empty"      -> ""
      [] outcome = "tool_failure_no_message" -> "Unknown error"
      [] OTHER                               -> "-"

\* The execute call made for the job at i (there is at most one).
ExecuteOutcomeOf(i) ==
    LET e == CHOOSE p \in CallsOf(i, "execute") : TRUE IN calls[e].outcome

----------------------------------------------------------------------------
\* C16 (as claimed): when an exception escapes the cycle body, every job
\* of the batch without a completion report was never marked started by
\* the dispatcher (its mark-started call was not made or failed): no job is
\* left marked started and unreported by the aborted cycle.
C16_AbortedCycleLeavesNoStartedJob ==
    (CycleOver /\ cycleRaised) =>
        \A i \in 1..Len(jobs) :
            CallsOf(i, "report") = {} => ~MarkSucceeded(i)

\* C18: the counter is never negative and changes only by +1, in a step in
\* which an exception escapes the cycle body, or by a reset to 0; after k
\* raising cycles in a row it is at least k; so the backoff sleeps of
\* raising cycles in a row never decrease and are 30 seconds from the sixth
\* on, and the handler's fallback sleep of the poll interval is never
\* taken.
C18_CounterAndBackoffGrow ==
    /\ [](consecutive_errors >= 0 /\ consecutive_errors >= raisedInRow)
    /\ []((CycleOver /\ cycleRaised) =>
             /\ slept.kind = "backoff"
             /\ slept.seconds >= ExpectedBackoff(raisedInRow)
             /\ raisedInRow >= 6 => slept.seconds = DEFAULT_MAX_BACKOFF)
    /\ [][\/ consecutive_errors' = consecutive_errors
          \/ /\ consecutive_errors' = consecutive_errors + 1
             /\ cycleRaised' /\ raisedInRow' = raisedInRow + 1
          \/ consecutive_errors' = 0]_vars
    /\ [][(raisedInRow' = raisedInRow + 1 /\ raisedInRow >= 1) =>
              slept'.seconds >= ExpectedBackoff(consecutive_errors)]_vars

\* The loop is in its seventh backoff sleep in a row, 30 seconds as the
\* sixth was.
C18_Witness ==
    /\ CycleOver /\ cycleRaised
    /\ raisedInRow = 7
    /\ consecutive_errors = 7
    /\ slept = [kind |-> "backoff", seconds |-> 30]

----------------------------------------------------------------------------
\* The claims about the executor, under ExecutorSpec.

\* The text of the request was acquired and is long enough to analyse.
TextSufficient ==
    work.text.state = "acquired" /\ work.text.len >= MIN_CONTENT_LENGTH

\* The text of the request is unavailable or too short.
TextInsufficient ==
    \/ work.text.state = "unavailable"
    \/ work.text.state = "acquired" /\ work.text.len < 100

\* C12: every request with an input mapping is answered with HTTP 200,
\* either success true with a result and no error, or success false with an
\* error message and no result; no step of a request in progress is stuck;
\* and an input without url, or with the empty url, is answered success
\* false with the error 'URL is required'.
C12_ExceptionsNeverEscape ==
    /\ epc \notin {"idle", "done"} => ENABLED ExecutorNext
    /\ epc = "done" =>
        /\ response.http = 200
        /\ response.success => response.body # "None" /\ response.error = "None"
        /\ ~response.success => response.body = "None" /\ response.error # "None"
        /\ request.url.kind \in {"missing", "empty"} =>
              ~response.success /\ response.error = "URL is required"

C12_Witness ==
    /\ epc = "done"
    /\ request.url.kind = "missing"
    /\ response = [http |-> 200, success |-> FALSE, body |-> "None",
                   sections |-> <<>>, error |-> "URL is required"]

\* C13: when the transcript of a video is unavailable or under 100
\* characters, or the text of a page is under 100 characters, the request
\* is answered success true with the body 'No Transcript' (video path) or
\* 'Insufficient Content' (generic path), and no pattern is run for it.
C13_ShortTextIsExplainedNotFailed ==
    TextInsufficient =>
        /\ epc = "done"
        /\ response.http = 200
        /\ response.success
        /\ response.error = "None"
        /\ response.body = IF work.route = "video" THEN "No Transcript"
                           ELSE "Insufficient Content"
        /\ response.sections = <<>>
        /\ PatternRuns(work.ops) = 0
        /\ work.results = <<>>

C13_Witness ==
    /\ epc = "done"
    /\ work.route = "video"
    /\ work.text = [state |-> "acquired", len |-> 99]
    /\ response.success
    /\ response.body = "No Transcript"

\* The recognized video hosts.
VideoHosts == {"youtube.com", "www.youtube.com", "youtu.be", "m.youtube.com"}

\* C14: a request with a non-empty url is routed to the video path exactly
\* when the host of the URL is one of the recognized video hosts, and to
\* the generic path otherwise.
C14_RoutedByHostAlone ==
    work.route # "none" =>
        work.route = IF request.url.host \in VideoHosts THEN "video" ELSE "generic"

\* The configured patterns of mode 'deep'.
DeepPatterns(route) ==
    IF route = "video"
    THEN <<"extract_wisdom", "extract_insights", "extract_recommendations",
           "extract_references", "summarize">>
    ELSE <<"summarize", "extract_wisdom", "extract_insights",
           "extract_recommendations">>

\* C15: for mode 'deep' and text of at least 100 characters, every run of
\* a pattern, whatever its outcome, adds one section, the sections are those
\* of the configured patterns in the configured order, each holding the
\* output or the 'Pattern execution failed' placeholder, and the answer is
\* success true with exactly N sections (5 on the video path, 4 on the
\* generic path).
C15_DeepModeHasOneSectionPerPattern ==
    request.mode = "deep" /\ TextSufficient =>
        LET expected == DeepPatterns(work.route)
        IN  /\ Len(expected) = IF work.route = "video" THEN 5 ELSE 4
            /\ epc \in {"patterns", "done"}
            /\ Len(work.results) = PatternRuns(work.ops)
            /\ Len(work.results) <= Len(expected)
            /\ \A i \in 1..Len(work.results) :
                /\ work.results[i].pattern = expected[i]
                /\ work.results[i].title = pattern_title(expected[i])
                /\ work.results[i].body \in {"output", "*Pattern execution failed*"}
            /\ epc = "done" =>
                /\ response.http = 200
                /\ response.success
                /\ response.sections = work.results
                /\ Len(response.sections) = Len(expected)
                /\ response.body = IF work.route = "video"
                                   THEN "YouTube Video Analysis" ELSE "Content Analysis"

C15_Witness ==
    /\ epc = "done"
    /\ request.mode = "deep"
    /\ work.route = "video"
    /\ response.success
    /\ Len(response.sections) = 5
    /\ response.sections[2] = [pattern |-> "extract_insights",
                               title |-> "Extract Insights",
                               body |-> "*Pattern execution failed*"]
    /\ response.sections[3] = [pattern |-> "extract_recommendations",
                               title |-> "Extract Recommendations",
                               body |-> "output"]

\* C17: when the fabric command is not found at the entry of the analyzer,
\* on either path, the request is answered at once: success true with the
\* body 'Analysis Unavailable', no video id extracted, no transcript or
\* page fetched, no pattern run, no section in the response.
C17_MissingToolShortCircuits ==
    work.fabric = "None" =>
        /\ epc = "done"
        /\ work.route \in {"video", "generic"}
        /\ response.http = 200
        /\ response.success
        /\ response.body = "Analysis Unavailable"
        /\ response.sections = <<>>
        /\ work.ops = <<>>
        /\ work.text = NoText
        /\ work.results = <<>>

C17_Witness ==
    /\ epc = "done"
    /\ work.fabric = "None"
    /\ work.route = "generic"
    /\ response.success
    /\ response.body = "Analysis Unavailable"

====
